---- MODULE Spec2Model ----
(***************************************************************************)
(* Standalone update orchestrator of the Mender client                     *)
(* (src/mender-update/standalone/standalone.cpp) together with the store   *)
(* context (src/common/context/context.cpp).                               *)
(*                                                                         *)
(* Strings are sequences of one-character strings, so that the record      *)
(* writer and the JSON reader work on the text that is stored.             *)
(***************************************************************************)
EXTENDS Integers, Sequences, FiniteSets, TLC

VARIABLES
    db_rec,      \* store entry standalone_state_key: [present, bytes]
    prov,        \* committed provenance: artifact_name, artifact_group, artifact_provides
    op,          \* the command that runs or ran last: Install, Commit, Rollback
    pc,          \* position of the running command ("idle" between commands)
    data,        \* StandaloneData of the running command
    header,      \* payload header of the artifact being installed
    result,      \* ResultAndError under construction / returned
    reboot,      \* value of NeedsReboot in DoInstallStates
    calls,       \* update-module operations invoked by the running command
    ret,         \* "none" while a command runs; how the last one ended:
                 \* "returned", or the position at which the process died
    pre          \* store as the running command found it: [rec, prov]

vars == <<db_rec, prov, op, pc, data, header, result, reboot, calls, ret, pre>>

-----------------------------------------------------------------------------
(* Bounds *)

MaxStrLen == 2       \* longest string drawn for a record field
MaxPayloads == 2     \* longest payload_types list drawn for a record

-----------------------------------------------------------------------------
(* Characters and the literal keys of the record *)

Q == "\""
B == "\\"

standalone_data_version == 1

K_version == <<"V","e","r","s","i","o","n">>
K_artifact_name == <<"A","r","t","i","f","a","c","t","N","a","m","e">>
K_artifact_group == <<"A","r","t","i","f","a","c","t","G","r","o","u","p">>
K_artifact_provides ==
    <<"A","r","t","i","f","a","c","t","T","y","p","e","I","n","f","o",
      "P","r","o","v","i","d","e","s">>
K_artifact_clears_provides ==
    <<"A","r","t","i","f","a","c","t","C","l","e","a","r","s",
      "P","r","o","v","i","d","e","s">>
K_payload_types == <<"P","a","y","l","o","a","d","T","y","p","e","s">>

-----------------------------------------------------------------------------
(* Errors: an Error is a chain of causes in the order they happened,        *)
(* NoError the empty chain.                                                 *)

NoError == <<>>

MakeError(code, msg) == <<[code |-> code, msg |-> msg]>>

FollowedBy(err, next) == err \o next

-----------------------------------------------------------------------------
(* JSON reader: json::Load and the typed accessors of json::Json.           *)
(* A value is [type, v]: "int" an integer, "str" a string, "arr" a sequence *)
(* of values, "obj" a function from keys to values, "lit" true/false/null.  *)

Digits == {"0", "1", "2", "3", "4", "5", "6", "7", "8", "9"}

DigitVal(c) ==
    CASE c = "0" -> 0 [] c = "1" -> 1 [] c = "2" -> 2 [] c = "3" -> 3
      [] c = "4" -> 4 [] c = "5" -> 5 [] c = "6" -> 6 [] c = "7" -> 7
      [] c = "8" -> 8 [] c = "9" -> 9

DigitChar(d) ==
    CASE d = 0 -> "0" [] d = 1 -> "1" [] d = 2 -> "2" [] d = 3 -> "3"
      [] d = 4 -> "4" [] d = 5 -> "5" [] d = 6 -> "6" [] d = 7 -> "7"
      [] d = 8 -> "8" [] d = 9 -> "9"

Whitespace == {" ", "\t", "\n", "\r"}

\* The escapes of a JSON string whose result is a character of this model;
\* \uXXXX and \b need characters the model has no name for and are not read.
Escapes == {Q, B, "/", "n", "t", "r", "f"}

Unescape(c) ==
    CASE c = Q -> Q [] c = B -> B [] c = "/" -> "/"
      [] c = "n" -> "\n" [] c = "t" -> "\t" [] c = "r" -> "\r" [] c = "f" -> "\f"

ParseFail == [ok |-> FALSE, val |-> <<>>, pos |-> 0]

ParseOk(v, p) == [ok |-> TRUE, val |-> v, pos |-> p]

JInt(n) == [type |-> "int", v |-> n]
JStr(s) == [type |-> "str", v |-> s]
JArr(a) == [type |-> "arr", v |-> a]
JObj(f) == [type |-> "obj", v |-> f]
JLit(l) == [type |-> "lit", v |-> l]

\* obj[key] = val, a later duplicate key replacing an earlier one
ObjPut(f, key, val) ==
    [k \in (DOMAIN f) \cup {key} |-> IF k = key THEN val ELSE f[k]]

HasPrefixAt(txt, i, word) ==
    /\ i + Len(word) - 1 <= Len(txt)
    /\ \A k \in 1..Len(word) : txt[i + k - 1] = word[k]

RECURSIVE SkipWs(_, _)
SkipWs(txt, i) ==
    IF i <= Len(txt) /\ txt[i] \in Whitespace THEN SkipWs(txt, i + 1) ELSE i

\* i is the position after the opening quote
RECURSIVE ScanString(_, _, _)
ScanString(txt, i, acc) ==
    IF i > Len(txt) THEN ParseFail
    ELSE IF txt[i] = Q THEN ParseOk(acc, i + 1)
    ELSE IF txt[i] = B THEN
        IF i + 1 > Len(txt) \/ txt[i + 1] \notin Escapes THEN ParseFail
        ELSE ScanString(txt, i + 2, Append(acc, Unescape(txt[i + 1])))
    ELSE IF txt[i] \in {"\n", "\t", "\r", "\f"} THEN ParseFail
    ELSE ScanString(txt, i + 1, Append(acc, txt[i]))

RECURSIVE ScanDigits(_, _, _)
ScanDigits(txt, i, n) ==
    IF i <= Len(txt) /\ txt[i] \in Digits
    THEN ScanDigits(txt, i + 1, 10 * n + DigitVal(txt[i]))
    ELSE ParseOk(n, i)

ParseNumber(txt, i) ==
    LET neg == txt[i] = "-"
        s == IF neg THEN i + 1 ELSE i
    IN  IF s > Len(txt) \/ txt[s] \notin Digits THEN ParseFail
        ELSE IF txt[s] = "0" /\ s + 1 <= Len(txt) /\ txt[s + 1] \in Digits
        THEN ParseFail
        ELSE LET r == ScanDigits(txt, s, 0)
             IN  ParseOk(JInt(IF neg THEN 0 - r.val ELSE r.val), r.pos)

RECURSIVE ParseValue(_, _)
RECURSIVE ParseMembers(_, _, _)
RECURSIVE ParseElements(_, _, _)

\* i is at the quote opening the next key of the object
ParseMembers(txt, i, obj) ==
    IF i > Len(txt) \/ txt[i] # Q THEN ParseFail
    ELSE LET k == ScanString(txt, i + 1, <<>>)
         IN  IF ~k.ok THEN ParseFail
             ELSE LET c == SkipWs(txt, k.pos)
                  IN  IF c > Len(txt) \/ txt[c] # ":" THEN ParseFail
                      ELSE LET v == ParseValue(txt, c + 1)
                           IN  IF ~v.ok THEN ParseFail
                               ELSE LET e == SkipWs(txt, v.pos)
                                        o == ObjPut(obj, k.val, v.val)
                                    IN  IF e > Len(txt) THEN ParseFail
                                        ELSE IF txt[e] = "}" THEN ParseOk(JObj(o), e + 1)
                                        ELSE IF txt[e] = ","
                                        THEN ParseMembers(txt, SkipWs(txt, e + 1), o)
                                        ELSE ParseFail

\* i is before the next element of the array
ParseElements(txt, i, arr) ==
    LET v == ParseValue(txt, i)
    IN  IF ~v.ok THEN ParseFail
        ELSE LET e == SkipWs(txt, v.pos)
                 a == Append(arr, v.val)
             IN  IF e > Len(txt) THEN ParseFail
                 ELSE IF txt[e] = "]" THEN ParseOk(JArr(a), e + 1)
                 ELSE IF txt[e] = "," THEN ParseElements(txt, e + 1, a)
                 ELSE ParseFail

ParseValue(txt, i0) ==
    LET i == SkipWs(txt, i0)
    IN  IF i > Len(txt) THEN ParseFail
        ELSE IF txt[i] = "{" THEN
            LET j == SkipWs(txt, i + 1)
            IN  IF j <= Len(txt) /\ txt[j] = "}" THEN ParseOk(JObj(<<>>), j + 1)
                ELSE ParseMembers(txt, j, <<>>)
        ELSE IF txt[i] = "[" THEN
            LET j == SkipWs(txt, i + 1)
            IN  IF j <= Len(txt) /\ txt[j] = "]" THEN ParseOk(JArr(<<>>), j + 1)
                ELSE ParseElements(txt, j, <<>>)
        ELSE IF txt[i] = Q THEN
            LET s == ScanString(txt, i + 1, <<>>)
            IN  IF s.ok THEN ParseOk(JStr(s.val), s.pos) ELSE ParseFail
        ELSE IF txt[i] = "-" \/ txt[i] \in Digits THEN ParseNumber(txt, i)
        ELSE IF HasPrefixAt(txt, i, <<"t","r","u","e">>) THEN ParseOk(JLit("true"), i + 4)
        ELSE IF HasPrefixAt(txt, i, <<"f","a","l","s","e">>) THEN ParseOk(JLit("false"), i + 5)
        ELSE IF HasPrefixAt(txt, i, <<"n","u","l","l">>) THEN ParseOk(JLit("null"), i + 4)
        ELSE ParseFail

\* expected<T, Error> of the accessors: [ok, val, err]
Expected(v) == [ok |-> TRUE, val |-> v, err |-> NoError]

Unexpected(e) == [ok |-> FALSE, val |-> <<>>, err |-> e]

\* json::Load(string): the whole text is one value
JsonLoad(txt) ==
    LET r == ParseValue(txt, 1)
    IN  IF r.ok /\ SkipWs(txt, r.pos) = Len(txt) + 1
        THEN Expected(r.val)
        ELSE Unexpected(MakeError("json.ParseError", "load"))

\* Json::Get(key)
JsonGet(json, key) ==
    IF json.type # "obj" THEN Unexpected(MakeError("json.TypeError", "get"))
    ELSE IF key \notin DOMAIN json.v THEN Unexpected(MakeError("json.KeyError", "get"))
    ELSE Expected(json.v[key])

AllStrings(f) == \A x \in DOMAIN f : f[x].type = "str"

\* Json::Get<T>() for the four types the record uses
JsonGetAs(json, T) ==
    CASE T = "int64" ->
            IF json.type = "int" THEN Expected(json.v)
            ELSE Unexpected(MakeError("json.TypeError", "int64"))
      [] T = "string" ->
            IF json.type = "str" THEN Expected(json.v)
            ELSE Unexpected(MakeError("json.TypeError", "string"))
      [] T = "KeyValueMap" ->
            IF json.type = "obj" /\ AllStrings(json.v)
            THEN Expected([k \in DOMAIN json.v |-> json.v[k].v])
            ELSE Unexpected(MakeError("json.TypeError", "KeyValueMap"))
      [] T = "vector<string>" ->
            IF json.type = "arr" /\ AllStrings(json.v)
            THEN Expected([k \in DOMAIN json.v |-> json.v[k].v])
            ELSE Unexpected(MakeError("json.TypeError", "vector<string>"))

\* T(): the value-initialised T
DefaultOf(T) == IF T = "int64" THEN 0 ELSE <<>>


-----------------------------------------------------------------------------
(* Key-value store entry and StandaloneData *)

Absent == [present |-> FALSE, bytes |-> <<>>]

Stored(bytes) == [present |-> TRUE, bytes |-> bytes]

\* optional<T>: unset, or set to a value
Unset == [set |-> FALSE, val |-> <<>>]

Set(v) == [set |-> TRUE, val |-> v]

\* StandaloneData as default-constructed
EmptyData ==
    [version |-> 0, artifact_name |-> <<>>, artifact_group |-> <<>>,
     artifact_provides |-> Unset, artifact_clears_provides |-> Unset,
     payload_types |-> <<>>]

\* GetEntry<T>(json, key, missing_ok)
GetEntry(json, key, missing_ok, T) ==
    LET exp_value == JsonGet(json, key)
    IN  IF ~exp_value.ok THEN
            IF missing_ok /\ exp_value.err[1].code # "json.KeyError"
            THEN Expected(DefaultOf(T))
            ELSE Unexpected(exp_value.err)
        ELSE JsonGetAs(exp_value.val, T)

\* result of LoadStandaloneData: [ok, val, err, dst]; val is "update in progress"
LoadBool(b, d) == [ok |-> TRUE, val |-> b, err |-> NoError, dst |-> d]

LoadFail(e, d) == [ok |-> FALSE, val |-> FALSE, err |-> e, dst |-> d]

\* ValidateStandaloneData with the bound of the payload count off by one
ValidateStandaloneData_OffByOne(dst) ==
    IF dst.version # standalone_data_version
    THEN LoadFail(MakeError("not_supported", "version"), dst)
    ELSE IF dst.artifact_name = <<>>
    THEN LoadFail(MakeError("DatabaseValueError", "ArtifactName is empty"), dst)
    ELSE IF Len(dst.payload_types) = 0
    THEN LoadFail(MakeError("DatabaseValueError", "PayloadTypes is empty"), dst)
    ELSE IF Len(dst.payload_types) > 2
    THEN LoadFail(MakeError("not_supported", "multiple payloads"), dst)
    ELSE LoadBool(TRUE, dst)

\* LoadStandaloneData: the checks on the fields read into dst
ValidateStandaloneData(dst) ==
    IF dst.version # standalone_data_version
    THEN LoadFail(MakeError("not_supported", "version"), dst)
    ELSE IF dst.artifact_name = <<>>
    THEN LoadFail(MakeError("DatabaseValueError", "ArtifactName is empty"), dst)
    ELSE IF Len(dst.payload_types) = 0
    THEN LoadFail(MakeError("DatabaseValueError", "PayloadTypes is empty"), dst)
    ELSE IF Len(dst.payload_types) >= 2
    THEN LoadFail(MakeError("not_supported", "multiple payloads"), dst)
    ELSE LoadBool(TRUE, dst)

\* LoadStandaloneData: the fields of the parsed text, one GetEntry each
ReadStandaloneData(json, dst) ==
    LET exp_int == GetEntry(json, K_version, FALSE, "int64")
        d1 == [dst EXCEPT !.version = exp_int.val]
        exp_name == GetEntry(json, K_artifact_name, FALSE, "string")
        d2 == [d1 EXCEPT !.artifact_name = exp_name.val]
        exp_group == GetEntry(json, K_artifact_group, TRUE, "string")
        d3 == [d2 EXCEPT !.artifact_group = exp_group.val]
        exp_map == GetEntry(json, K_artifact_provides, FALSE, "KeyValueMap")
        d4 == [d3 EXCEPT !.artifact_provides =
                   IF exp_map.ok THEN Set(exp_map.val) ELSE Unset]
        exp_clears == GetEntry(json, K_artifact_clears_provides, FALSE, "vector<string>")
        d5 == [d4 EXCEPT !.artifact_clears_provides =
                   IF exp_clears.ok THEN Set(exp_clears.val) ELSE Unset]
        exp_array == GetEntry(json, K_payload_types, FALSE, "vector<string>")
        d6 == [d5 EXCEPT !.payload_types = exp_array.val]
    IN  IF ~exp_int.ok THEN LoadFail(exp_int.err, dst)
        ELSE IF ~exp_name.ok THEN LoadFail(exp_name.err, d1)
        ELSE IF ~exp_group.ok THEN LoadFail(exp_group.err, d2)
        ELSE IF ~exp_array.ok THEN LoadFail(exp_array.err, d5)
        ELSE ValidateStandaloneData(d6)

\* LoadStandaloneData without the special case of the missing key
LoadStandaloneData_MissingKeyIsError(db, read_err, dst) ==
    LET exp_json == JsonLoad(db.bytes)
    IN  IF read_err # NoError THEN LoadFail(read_err, dst)
        ELSE IF ~db.present THEN LoadFail(MakeError("database.KeyError", "Read"), dst)
        ELSE IF ~exp_json.ok THEN LoadFail(exp_json.err, dst)
        ELSE ReadStandaloneData(exp_json.val, dst)

\* LoadStandaloneData(db, dst); read_err is the error of db.Read when the
\* read fails for another reason than a missing key
LoadStandaloneData(db, read_err, dst) ==
    LET exp_json == JsonLoad(db.bytes)
    IN  IF read_err # NoError THEN LoadFail(read_err, dst)
        ELSE IF ~db.present THEN LoadBool(FALSE, dst)
        ELSE IF ~exp_json.ok THEN LoadFail(exp_json.err, dst)
        ELSE ReadStandaloneData(exp_json.val, dst)

\* StandaloneDataFromPayloadHeaderView without the push_back of the payload type
StandaloneDataFromPayloadHeaderView_NoPayloadType(hdr) ==
    [version |-> standalone_data_version,
     artifact_name |-> hdr.artifact_name,
     artifact_group |-> hdr.artifact_group,
     artifact_provides |-> hdr.artifact_provides,
     artifact_clears_provides |-> hdr.clears_artifact_provides,
     payload_types |-> <<>>]

\* StandaloneDataFromPayloadHeaderView(header, dst)
StandaloneDataFromPayloadHeaderView(hdr) ==
    [version |-> standalone_data_version,
     artifact_name |-> hdr.artifact_name,
     artifact_group |-> hdr.artifact_group,
     artifact_provides |-> hdr.artifact_provides,
     artifact_clears_provides |-> hdr.clears_artifact_provides,
     payload_types |-> <<hdr.payload_type>>]

\* operator<< of a string between two quotes: the characters as they are
Quoted(s) == <<Q>> \o s \o <<Q>>

\* operator<< of an int64_t
RECURSIVE NatText(_)
NatText(n) == IF n < 10 THEN <<DigitChar(n)>> ELSE NatText(n \div 10) \o <<DigitChar(n % 10)>>

IntText(n) == IF n < 0 THEN <<"-">> \o NatText(0 - n) ELSE NatText(n)

\* the loops over a vector<string>: elements in order, "," before all but the first
RECURSIVE WriteStrings(_, _)
WriteStrings(elems, first) ==
    IF elems = <<>> THEN <<>>
    ELSE (IF first THEN <<>> ELSE <<",">>) \o Quoted(Head(elems))
         \o WriteStrings(Tail(elems), FALSE)

\* the loop over the provides map, in the map's iteration order
RECURSIVE WritePairs(_, _, _)
WritePairs(map, keys, first) ==
    IF keys = {} THEN <<>>
    ELSE LET k == CHOOSE x \in keys : TRUE
         IN  (IF first THEN <<>> ELSE <<",">>)
             \o Quoted(k) \o <<":">> \o Quoted(map[k])
             \o WritePairs(map, keys \ {k}, FALSE)

\* the text SaveStandaloneData builds in ss
StandaloneDataText(d) ==
    <<"{">>
    \o Quoted(K_version) \o <<":">> \o IntText(d.version)
    \o <<",">>
    \o Quoted(K_artifact_name) \o <<":">> \o Quoted(d.artifact_name)
    \o <<",">>
    \o Quoted(K_artifact_group) \o <<":">> \o Quoted(d.artifact_group)
    \o <<",">>
    \o Quoted(K_payload_types) \o <<":", " ", "[">>
    \o WriteStrings(d.payload_types, TRUE)
    \o <<"]">>
    \o (IF d.artifact_provides.set
        THEN <<",">> \o Quoted(K_artifact_provides) \o <<":", " ", "{">>
             \o WritePairs(d.artifact_provides.val, DOMAIN d.artifact_provides.val, TRUE)
             \o <<"}">>
        ELSE <<>>)
    \o (IF d.artifact_clears_provides.set
        THEN <<",">> \o Quoted(K_artifact_clears_provides) \o <<":", " ", "[">>
             \o WriteStrings(d.artifact_clears_provides.val, TRUE)
             \o <<"]">>
        ELSE <<>>)
    \o <<"}">>

\* SaveStandaloneData(db, data): the entry after db.Write, which either
\* stores the text or fails and stores nothing
SaveStandaloneData(db, d, write_err) ==
    IF write_err = NoError THEN Stored(StandaloneDataText(d)) ELSE db

\* RemoveStandaloneData(db)
RemoveStandaloneData(db, remove_err) ==
    IF remove_err = NoError THEN Absent ELSE db


-----------------------------------------------------------------------------
(* Inputs of the orchestrator *)

\* context::MenderContext::broken_artifact_name_suffix
broken_artifact_name_suffix ==
    <<"_","I","N","C","O","N","S","I","S","T","E","N","T">>

\* the key "artifact_name" of a provides mapping
P_artifact_name == <<"a","r","t","i","f","a","c","t","_","n","a","m","e">>

\* a provides mapping with one entry
OneEntry(k, v) == [x \in {k} |-> v]

\* payload headers of the artifacts offered to Install
Headers ==
    {[artifact_name |-> <<"a">>, artifact_group |-> <<"g">>,
      artifact_provides |-> Set(OneEntry(<<"k">>, <<"v">>)),
      clears_artifact_provides |-> Set(<<  <<"k">>  >>),
      payload_type |-> <<"m">>],
     [artifact_name |-> <<"b">>, artifact_group |-> <<>>,
      artifact_provides |-> Unset,
      clears_artifact_provides |-> Unset,
      payload_type |-> <<"n">>]}

NoHeader ==
    [artifact_name |-> <<>>, artifact_group |-> <<>>, artifact_provides |-> Unset,
     clears_artifact_provides |-> Unset, payload_type |-> <<>>]

\* what the src argument of Install turns out to be
Sources == {"http", "unreadable", "unparsable", "no_header", "artifact"}

\* the header the artifact reader yields for a source
HeadersOf(src) == IF src = "artifact" THEN Headers ELSE {NoHeader}

\* errors of the store, of the artifact reader and of an update-module operation
DbError(what) == MakeError("database.Error", what)

ModuleError(verb) == MakeError("update_module.Error", verb)

DbOutcomes(what) == {NoError, DbError(what)}

ModuleOutcomes(verb) == {NoError, ModuleError(verb)}

\* provenance the device starts with
InitialProvenance ==
    {[artifact_name |-> <<"o">>, artifact_group |-> <<>>,
      artifact_provides |-> OneEntry(<<"k">>, <<"w">>)]}

-----------------------------------------------------------------------------
(* MenderContext::CommitArtifactData: one write transaction that applies    *)
(* the clears-provides list, writes name, group and provides, and runs the  *)
(* caller's mutation (here always the removal of standalone_state_key).     *)

ClearedProvides(old, clears) ==
    IF clears.set
    THEN [k \in {x \in DOMAIN old : \A i \in DOMAIN clears.val : clears.val[i] # x} |-> old[k]]
    ELSE old

MergedProvides(old, new) ==
    IF new.set
    THEN [k \in (DOMAIN old) \cup (DOMAIN new.val) |->
              IF k \in DOMAIN new.val THEN new.val[k] ELSE old[k]]
    ELSE old

CommittedProvenance(old, name, group, provides, clears) ==
    [artifact_name |-> name,
     artifact_group |-> group,
     artifact_provides |-> MergedProvides(ClearedProvides(old.artifact_provides, clears), provides)]

\* the store after the transaction: [rec, prov]; nothing changes when it fails
CommitArtifactData(store, name, group, provides, clears, txn_err) ==
    IF txn_err = NoError
    THEN [rec |-> Absent, prov |-> CommittedProvenance(store.prov, name, group, provides, clears)]
    ELSE store

\* BrokenData without the artifact_name entry of the provides
BrokenData_NameOnly(d) ==
    [d EXCEPT !.artifact_name = d.artifact_name \o broken_artifact_name_suffix]

\* the data CommitBrokenArtifact commits: the name with the suffix, also as
\* the artifact_name entry of the provides when there are provides
BrokenData(d) ==
    LET name == d.artifact_name \o broken_artifact_name_suffix
    IN  [d EXCEPT !.artifact_name = name,
                  !.artifact_provides =
                      IF d.artifact_provides.set
                      THEN Set(ObjPut(d.artifact_provides.val, P_artifact_name, name))
                      ELSE d.artifact_provides]

\* CommitBrokenArtifact whose transaction does not remove the record
CommitBrokenArtifact_KeepsRecord(store, d, txn_err) ==
    LET b == BrokenData(d)
        after == CommitArtifactData(store, b.artifact_name, b.artifact_group,
                                    b.artifact_provides, b.artifact_clears_provides, txn_err)
    IN  [rec |-> store.rec, prov |-> after.prov]

\* CommitBrokenArtifact(main_context, data): [rec, prov] after it
CommitBrokenArtifact(store, d, txn_err) ==
    LET b == BrokenData(d)
    IN  CommitArtifactData(store, b.artifact_name, b.artifact_group,
                           b.artifact_provides, b.artifact_clears_provides, txn_err)


-----------------------------------------------------------------------------
(* The commands. A command runs from pc = "idle" to its return, one step    *)
(* per call of the store, of the artifact reader or of the update module;   *)
(* the process may die between any two steps.                               *)

Store == [rec |-> db_rec, prov |-> prov]

NoResult == [result |-> "None", err |-> NoError]

Begin(cmd) ==
    /\ pc = "idle"
    /\ op' = cmd
    /\ calls' = <<>>
    /\ pre' = Store
    /\ reboot' = "No"

Return(res, err) ==
    /\ pc' = "idle"
    /\ result' = [result |-> res, err |-> err]
    /\ ret' = "returned"

Goto(next, res, err) ==
    /\ pc' = next
    /\ result' = [result |-> res, err |-> err]
    /\ ret' = "none"

\* the log of update-module operations: <<operation, outcome>>
Outcome(err) == IF err = NoError THEN "ok" ELSE "error"

Invoke(verb, outcome) == calls' = Append(calls, <<verb, outcome>>)

\* InstallRefusal without the check for an update in progress
InstallRefusal_NoInProgressCheck(exp_in_progress, src) ==
    IF ~exp_in_progress.ok THEN exp_in_progress.err
    ELSE IF src = "http" THEN MakeError("not_supported", "HTTP")
    ELSE IF src = "unreadable" THEN MakeError("errno", "Could not open")
    ELSE IF src = "unparsable" THEN MakeError("artifact.Error", "Parse")
    ELSE IF src = "no_header" THEN MakeError("artifact.Error", "View")
    ELSE NoError

\* Install: the error of the early return before the update module is
\* constructed, NoError when Install goes on
InstallRefusal(exp_in_progress, src) ==
    IF ~exp_in_progress.ok THEN exp_in_progress.err
    ELSE IF exp_in_progress.val
    THEN MakeError("operation_in_progress", "Update already in progress")
    ELSE IF src = "http" THEN MakeError("not_supported", "HTTP")
    ELSE IF src = "unreadable" THEN MakeError("errno", "Could not open")
    ELSE IF src = "unparsable" THEN MakeError("artifact.Error", "Parse")
    ELSE IF src = "no_header" THEN MakeError("artifact.Error", "View")
    ELSE NoError

\* Install, up to the construction of the update module; exp_in_progress is
\* the result of its LoadStandaloneData
InstallBegin(exp_in_progress, src, hdr) ==
    LET refusal == InstallRefusal(exp_in_progress, src)
    IN  /\ Begin("Install")
        /\ data' = exp_in_progress.dst
        /\ UNCHANGED <<db_rec, prov>>
        /\ IF refusal # NoError
           THEN Return("FailedNothingDone", refusal) /\ header' = NoHeader
           ELSE Goto("PrepareFileTree", "None", NoError) /\ header' = hdr

InstallPrepareFileTree(err) ==
    /\ pc = "PrepareFileTree"
    /\ Invoke("PrepareFileTree", Outcome(err))
    /\ IF err # NoError
       THEN Goto("InstallCleanup", "None", err)
       ELSE Goto("SaveStandaloneData", "None", NoError)
    /\ UNCHANGED <<db_rec, prov, op, data, header, reboot, pre>>

\* the Cleanup after a failed PrepareFileTree or SaveStandaloneData
InstallCleanup(cleanup_err) ==
    /\ pc = "InstallCleanup"
    /\ Invoke("Cleanup", Outcome(cleanup_err))
    /\ Return("FailedNothingDone", FollowedBy(result.err, cleanup_err))
    /\ UNCHANGED <<db_rec, prov, op, data, header, reboot, pre>>

\* InstallSave that goes on to DoInstallStates although the save failed
InstallSave_IgnoresError(write_err) ==
    LET d == StandaloneDataFromPayloadHeaderView(header)
    IN  /\ pc = "SaveStandaloneData"
        /\ data' = d
        /\ db_rec' = SaveStandaloneData(db_rec, d, write_err)
        /\ Goto("Next", "None", NoError)
        /\ UNCHANGED <<prov, op, header, reboot, calls, pre>>

InstallSave(write_err) ==
    LET d == StandaloneDataFromPayloadHeaderView(header)
    IN  /\ pc = "SaveStandaloneData"
        /\ data' = d
        /\ db_rec' = SaveStandaloneData(db_rec, d, write_err)
        /\ IF write_err # NoError
           THEN Goto("InstallCleanup", "None", write_err)
           ELSE Goto("Next", "None", NoError)
        /\ UNCHANGED <<prov, op, header, reboot, calls, pre>>

\* DoInstallStates: artifact.Next()
DoInstallNext(next_err) ==
    /\ pc = "Next"
    /\ IF next_err # NoError
       THEN Return("FailedNothingDone", next_err)
       ELSE Goto("Download", "None", NoError)
    /\ UNCHANGED <<db_rec, prov, op, data, header, reboot, calls, pre>>

DoInstallDownload(err) ==
    /\ pc = "Download"
    /\ Invoke("Download", Outcome(err))
    /\ IF err # NoError
       THEN Goto("DownloadCleanup", "None", err)
       ELSE Goto("ArtifactInstall", "None", NoError)
    /\ UNCHANGED <<db_rec, prov, op, data, header, reboot, pre>>

DoInstallDownloadCleanup(cleanup_err) ==
    /\ pc = "DownloadCleanup"
    /\ Invoke("Cleanup", Outcome(cleanup_err))
    /\ Goto("DownloadRemove", "None", FollowedBy(result.err, cleanup_err))
    /\ UNCHANGED <<db_rec, prov, op, data, header, reboot, pre>>

DoInstallDownloadRemove(remove_err) ==
    /\ pc = "DownloadRemove"
    /\ db_rec' = RemoveStandaloneData(db_rec, remove_err)
    /\ Return("FailedNothingDone", FollowedBy(result.err, remove_err))
    /\ UNCHANGED <<prov, op, data, header, reboot, calls, pre>>

\* a failed step hands over to InstallationFailureHandler, which starts
\* with DoRollback; the error of the failed step is logged and dropped
DoInstallArtifactInstall(err) ==
    /\ pc = "ArtifactInstall"
    /\ Invoke("ArtifactInstall", Outcome(err))
    /\ IF err # NoError
       THEN Goto("DoRollback", "None", NoError)
       ELSE Goto("NeedsReboot", "None", NoError)
    /\ UNCHANGED <<db_rec, prov, op, data, header, reboot, pre>>

RebootActions == {"No", "Automatic", "Yes"}

DoInstallNeedsReboot(answer) ==
    /\ pc = "NeedsReboot"
    /\ Invoke("NeedsReboot", answer)
    /\ IF answer = "error"
       THEN Goto("DoRollback", "None", NoError) /\ UNCHANGED reboot
       ELSE Goto("SupportsRollback", "None", NoError) /\ reboot' = answer
    /\ UNCHANGED <<db_rec, prov, op, data, header, pre>>

DoInstallSupportsRollback(answer) ==
    /\ pc = "SupportsRollback"
    /\ Invoke("SupportsRollback", answer)
    /\ IF answer = "error"
       THEN Goto("DoRollback", "None", NoError)
       ELSE IF answer = "yes"
       THEN Return(IF reboot # "No" THEN "InstalledRebootRequired" ELSE "Installed", NoError)
       ELSE Goto("ArtifactCommit", "None", NoError)
    /\ UNCHANGED <<db_rec, prov, op, data, header, reboot, pre>>


\* DoCommit: ArtifactCommit
DoCommitArtifactCommit(err) ==
    /\ pc = "ArtifactCommit"
    /\ Invoke("ArtifactCommit", Outcome(err))
    /\ IF err # NoError
       THEN Goto("DoRollback", "None", NoError)
       ELSE Goto("CommitCleanup", "Committed", NoError)
    /\ UNCHANGED <<db_rec, prov, op, data, header, reboot, pre>>

\* DoCommitCleanup that returns when Cleanup fails, without the transaction
DoCommitCleanup_ReturnsOnFailure(err) ==
    /\ pc = "CommitCleanup"
    /\ Invoke("Cleanup", Outcome(err))
    /\ IF err # NoError
       THEN Return("InstalledButFailedInPostCommit", FollowedBy(result.err, err))
       ELSE Goto("CommitArtifactData", result.result, result.err)
    /\ UNCHANGED <<db_rec, prov, op, data, header, reboot, pre>>

DoCommitCleanup(err) ==
    /\ pc = "CommitCleanup"
    /\ Invoke("Cleanup", Outcome(err))
    /\ IF err # NoError
       THEN Goto("CommitArtifactData", "InstalledButFailedInPostCommit",
                 FollowedBy(result.err, err))
       ELSE Goto("CommitArtifactData", result.result, result.err)
    /\ UNCHANGED <<db_rec, prov, op, data, header, reboot, pre>>

\* InstallResultOf with the test of the reboot action inverted
InstallResultOf_Inverted(res, reboot_action) ==
    IF res = "Committed"
    THEN IF reboot_action = "No"
         THEN "InstalledAndCommittedRebootRequired"
         ELSE "InstalledAndCommitted"
    ELSE res

\* what DoInstallStates makes of DoCommit's result
InstallResultOf(res, reboot_action) ==
    IF res = "Committed"
    THEN IF reboot_action # "No"
         THEN "InstalledAndCommittedRebootRequired"
         ELSE "InstalledAndCommitted"
    ELSE res

\* DoCommitCommitArtifactData without the removal of the record in the
\* transaction
DoCommitCommitArtifactData_KeepsRecord(txn_err) ==
    LET after == CommitArtifactData(Store, data.artifact_name, data.artifact_group,
                                    data.artifact_provides, data.artifact_clears_provides,
                                    txn_err)
        res == IF txn_err # NoError THEN "InstalledButFailedInPostCommit" ELSE result.result
        err == FollowedBy(result.err, txn_err)
    IN  /\ pc = "CommitArtifactData"
        /\ db_rec' = db_rec
        /\ prov' = after.prov
        /\ IF op = "Install"
           THEN Return(InstallResultOf(res, reboot), err)
           ELSE Return(res, err)
        /\ UNCHANGED <<op, data, header, reboot, calls, pre>>

\* DoCommit: the commit transaction, and the return to Commit or to
\* DoInstallStates
DoCommitCommitArtifactData(txn_err) ==
    LET after == CommitArtifactData(Store, data.artifact_name, data.artifact_group,
                                    data.artifact_provides, data.artifact_clears_provides,
                                    txn_err)
        res == IF txn_err # NoError THEN "InstalledButFailedInPostCommit" ELSE result.result
        err == FollowedBy(result.err, txn_err)
    IN  /\ pc = "CommitArtifactData"
        /\ db_rec' = after.rec
        /\ prov' = after.prov
        /\ IF op = "Install"
           THEN Return(InstallResultOf(res, reboot), err)
           ELSE Return(res, err)
        /\ UNCHANGED <<op, data, header, reboot, calls, pre>>

\* AfterDoRollback where Rollback does not return at once on NoRollback
AfterDoRollback_NoEarlyReturn(r) ==
    IF op = "Rollback"
    THEN Goto("RollbackCleanup", r.result, r.err)
    ELSE Goto("ArtifactFailure",
              CASE r.result = "RolledBack" -> "FailedAndRolledBack"
                [] r.result = "NoRollback" -> "FailedAndNoRollback"
                [] r.result = "RollbackFailed" -> "FailedAndRollbackFailed",
              r.err)

\* where DoRollback's caller goes on with DoRollback's result r: Rollback
\* returns NoRollback at once and otherwise cleans up;
\* InstallationFailureHandler maps the result and calls ArtifactFailure
AfterDoRollback(r) ==
    IF op = "Rollback"
    THEN IF r.result = "NoRollback"
         THEN Return(r.result, r.err)
         ELSE Goto("RollbackCleanup", r.result, r.err)
    ELSE Goto("ArtifactFailure",
              CASE r.result = "RolledBack" -> "FailedAndRolledBack"
                [] r.result = "NoRollback" -> "FailedAndNoRollback"
                [] r.result = "RollbackFailed" -> "FailedAndRollbackFailed",
              r.err)

\* DoRollback: SupportsRollback
DoRollbackSupportsRollback(answer) ==
    /\ pc = "DoRollback"
    /\ Invoke("SupportsRollback", answer)
    /\ IF answer = "error"
       THEN AfterDoRollback([result |-> "NoRollback", err |-> ModuleError("SupportsRollback")])
       ELSE IF answer = "yes"
       THEN Goto("ArtifactRollback", "None", NoError)
       ELSE AfterDoRollback([result |-> "NoRollback", err |-> NoError])
    /\ UNCHANGED <<db_rec, prov, op, data, header, reboot, pre>>

DoRollbackArtifactRollback(err) ==
    /\ pc = "ArtifactRollback"
    /\ Invoke("ArtifactRollback", Outcome(err))
    /\ IF err # NoError
       THEN AfterDoRollback([result |-> "RollbackFailed", err |-> err])
       ELSE AfterDoRollback([result |-> "RolledBack", err |-> NoError])
    /\ UNCHANGED <<db_rec, prov, op, data, header, reboot, pre>>

\* FailureHandlerArtifactFailure that does not demote the result
FailureHandlerArtifactFailure_KeepsResult(err) ==
    /\ pc = "ArtifactFailure"
    /\ Invoke("ArtifactFailure", Outcome(err))
    /\ Goto("FailureCleanup", result.result, FollowedBy(result.err, err))
    /\ UNCHANGED <<db_rec, prov, op, data, header, reboot, pre>>

\* InstallationFailureHandler after DoRollback
FailureHandlerArtifactFailure(err) ==
    /\ pc = "ArtifactFailure"
    /\ Invoke("ArtifactFailure", Outcome(err))
    /\ IF err # NoError
       THEN Goto("FailureCleanup", "FailedAndRollbackFailed", FollowedBy(result.err, err))
       ELSE Goto("FailureCleanup", result.result, result.err)
    /\ UNCHANGED <<db_rec, prov, op, data, header, reboot, pre>>

FailureHandlerCleanup(err) ==
    /\ pc = "FailureCleanup"
    /\ Invoke("Cleanup", Outcome(err))
    /\ IF err # NoError
       THEN Goto("FailureFinalize", "FailedAndRollbackFailed", FollowedBy(result.err, err))
       ELSE Goto("FailureFinalize", result.result, result.err)
    /\ UNCHANGED <<db_rec, prov, op, data, header, reboot, pre>>

\* the last step of InstallationFailureHandler and of Rollback: remove the
\* record when rolled_back, else CommitBrokenArtifact; failed is the result
\* a failure of this step gives
Finalize(rolled_back, failed, db_err) ==
    /\ IF rolled_back
       THEN /\ db_rec' = RemoveStandaloneData(db_rec, db_err)
            /\ UNCHANGED <<prov, data>>
       ELSE LET after == CommitBrokenArtifact(Store, data, db_err)
            IN  /\ db_rec' = after.rec
                /\ prov' = after.prov
                /\ data' = BrokenData(data)
    /\ IF db_err # NoError
       THEN Return(failed, FollowedBy(result.err, db_err))
       ELSE Return(result.result, result.err)

\* FailureHandlerFinalize that commits the broken artifact whatever the result
FailureHandlerFinalize_AlwaysBroken(db_err) ==
    /\ pc = "FailureFinalize"
    /\ Finalize(FALSE, "FailedAndRollbackFailed", db_err)
    /\ UNCHANGED <<op, header, reboot, calls, pre>>

FailureHandlerFinalize(db_err) ==
    /\ pc = "FailureFinalize"
    /\ Finalize(result.result = "FailedAndRolledBack", "FailedAndRollbackFailed", db_err)
    /\ UNCHANGED <<op, header, reboot, calls, pre>>

\* Commit, up to the construction of the update module
CommitBegin(read_err) ==
    LET exp_in_progress == LoadStandaloneData(db_rec, read_err, EmptyData)
    IN  /\ Begin("Commit")
        /\ data' = exp_in_progress.dst
        /\ header' = NoHeader
        /\ UNCHANGED <<db_rec, prov>>
        /\ IF ~exp_in_progress.ok
           THEN Return("FailedNothingDone", exp_in_progress.err)
           ELSE IF ~exp_in_progress.val
           THEN Return("NoUpdateInProgress",
                       MakeError("NoUpdateInProgressError", "Cannot commit"))
           ELSE Goto("ArtifactCommit", "None", NoError)

\* Rollback, up to the construction of the update module
RollbackBegin(read_err) ==
    LET exp_in_progress == LoadStandaloneData(db_rec, read_err, EmptyData)
    IN  /\ Begin("Rollback")
        /\ data' = exp_in_progress.dst
        /\ header' = NoHeader
        /\ UNCHANGED <<db_rec, prov>>
        /\ IF ~exp_in_progress.ok
           THEN Return("FailedNothingDone", exp_in_progress.err)
           ELSE IF ~exp_in_progress.val
           THEN Return("NoUpdateInProgress",
                       MakeError("NoUpdateInProgressError", "Cannot roll back"))
           ELSE Goto("DoRollback", "None", NoError)

\* RollbackCleanup that does not demote the result when Cleanup fails
RollbackCleanup_KeepsResult(err) ==
    /\ pc = "RollbackCleanup"
    /\ Invoke("Cleanup", Outcome(err))
    /\ Goto("RollbackFinalize", result.result, FollowedBy(result.err, err))
    /\ UNCHANGED <<db_rec, prov, op, data, header, reboot, pre>>

RollbackCleanup(err) ==
    /\ pc = "RollbackCleanup"
    /\ Invoke("Cleanup", Outcome(err))
    /\ IF err # NoError
       THEN Goto("RollbackFinalize", "FailedAndRollbackFailed", FollowedBy(result.err, err))
       ELSE Goto("RollbackFinalize", result.result, result.err)
    /\ UNCHANGED <<db_rec, prov, op, data, header, reboot, pre>>

RollbackFinalize(db_err) ==
    /\ pc = "RollbackFinalize"
    /\ Finalize(result.result = "RolledBack", "RollbackFailed", db_err)
    /\ UNCHANGED <<op, header, reboot, calls, pre>>

\* the process dies (power loss, kill): the store stays, the rest is lost
Crash ==
    /\ pc # "idle"
    /\ pc' = "idle"
    /\ ret' = pc
    /\ result' = NoResult
    /\ reboot' = "No"
    /\ calls' = <<>>
    /\ UNCHANGED <<db_rec, prov, op, data, header, pre>>

-----------------------------------------------------------------------------
(* Specification of the orchestrator *)

Answers == {"yes", "no", "error"}

Init ==
    /\ db_rec = Absent
    /\ prov \in InitialProvenance
    /\ op = "None"
    /\ pc = "idle"
    /\ data = EmptyData
    /\ header = NoHeader
    /\ result = NoResult
    /\ reboot = "No"
    /\ calls = <<>>
    /\ ret = "none"
    /\ pre = [rec |-> Absent, prov |-> prov]

Next ==
    \/ \E e \in DbOutcomes("Read") :
           LET exp_in_progress == LoadStandaloneData(db_rec, e, EmptyData)
           IN  \E src \in Sources : \E hdr \in HeadersOf(src) :
                   InstallBegin(exp_in_progress, src, hdr)
    \/ \E e \in ModuleOutcomes("PrepareFileTree") : InstallPrepareFileTree(e)
    \/ \E e \in ModuleOutcomes("Cleanup") : InstallCleanup(e)
    \/ \E e \in DbOutcomes("Write") : InstallSave(e)
    \/ \E e \in {NoError, MakeError("artifact.Error", "Next")} : DoInstallNext(e)
    \/ \E e \in ModuleOutcomes("Download") : DoInstallDownload(e)
    \/ \E e \in ModuleOutcomes("Cleanup") : DoInstallDownloadCleanup(e)
    \/ \E e \in DbOutcomes("Remove") : DoInstallDownloadRemove(e)
    \/ \E e \in ModuleOutcomes("ArtifactInstall") : DoInstallArtifactInstall(e)
    \/ \E a \in RebootActions \cup {"error"} : DoInstallNeedsReboot(a)
    \/ \E a \in Answers : DoInstallSupportsRollback(a)
    \/ \E e \in ModuleOutcomes("ArtifactCommit") : DoCommitArtifactCommit(e)
    \/ \E e \in ModuleOutcomes("Cleanup") : DoCommitCleanup(e)
    \/ \E e \in DbOutcomes("Commit") : DoCommitCommitArtifactData(e)
    \/ \E a \in Answers : DoRollbackSupportsRollback(a)
    \/ \E e \in ModuleOutcomes("ArtifactRollback") : DoRollbackArtifactRollback(e)
    \/ \E e \in ModuleOutcomes("ArtifactFailure") : FailureHandlerArtifactFailure(e)
    \/ \E e \in ModuleOutcomes("Cleanup") : FailureHandlerCleanup(e)
    \/ \E e \in DbOutcomes("Commit") : FailureHandlerFinalize(e)
    \/ \E e \in DbOutcomes("Read") : CommitBegin(e)
    \/ \E e \in DbOutcomes("Read") : RollbackBegin(e)
    \/ \E e \in ModuleOutcomes("Cleanup") : RollbackCleanup(e)
    \/ \E e \in DbOutcomes("Commit") : RollbackFinalize(e)
    \/ Crash

Spec == Init /\ [][Next]_vars


-----------------------------------------------------------------------------
(* Specification of the record alone: a record is saved and loaded again,   *)
(* or a text that some writer left in the store is loaded.                  *)

\* the characters record fields are drawn from
Chars == {"a", Q, B}

StringsUpTo(n) == UNION {[1..k -> Chars] : k \in 0..n}

\* the valid records handed to SaveStandaloneData
ValidRecords ==
    [version : {standalone_data_version},
     artifact_name : StringsUpTo(MaxStrLen) \ {<<>>},
     artifact_group : {<<>>, <<"g">>, <<B>>},
     artifact_provides :
         {Unset, Set(<<>>)} \cup {Set(OneEntry(<<"k">>, v)) : v \in {<<"v">>, <<Q>>, <<B, B>>}},
     artifact_clears_provides : {Unset, Set(<<>>), Set(<<  <<"k">>  >>)},
     payload_types : {<<  <<"m">>  >>}]

\* a field of a stored text: left out, or present with some JSON value
Missing == [has |-> FALSE, json |-> JInt(0)]

Field(j) == [has |-> TRUE, json |-> j]

\* the documents found in the store, each field by its shape: missing, well
\* typed or of a wrong type
StoredDocs ==
    {d \in [version : {"missing", "1", "2", "string"},
            artifact_name : {"missing", "empty", "a", "int"},
            artifact_group : {"missing", "g", "int"},
            payload_types : {"missing", "strings", "ints"},
            payloads : 0..MaxPayloads,
            artifact_provides : {"missing", "map", "ints", "string"},
            artifact_clears_provides : {"missing", "strings", "ints", "string"}] :
        d.payload_types # "strings" => d.payloads = 0}

\* the field a shape stands for
FieldOf(key, shape, n) ==
    CASE shape = "missing" -> Missing
      [] shape = "1" -> Field(JInt(standalone_data_version))
      [] shape = "2" -> Field(JInt(standalone_data_version + 1))
      [] shape = "empty" -> Field(JStr(<<>>))
      [] shape = "a" -> Field(JStr(<<"a">>))
      [] shape = "g" -> Field(JStr(<<"g">>))
      [] shape = "int" -> Field(JInt(1))
      [] shape = "string" -> Field(JStr(<<"1">>))
      [] shape = "strings" -> Field(JArr([i \in 1..n |-> JStr(<<"m">>)]))
      [] shape = "ints" ->
            IF key = K_artifact_provides
            THEN Field(JObj(OneEntry(<<"k">>, JInt(1))))
            ELSE Field(JArr(<<JInt(1)>>))
      [] shape = "map" -> Field(JObj(OneEntry(<<"k">>, JStr(<<"v">>))))

\* a JSON string with its quote and backslash characters escaped
RECURSIVE EscapedText(_)
EscapedText(s) ==
    IF s = <<>> THEN <<>>
    ELSE (IF Head(s) \in {Q, B} THEN <<B, Head(s)>> ELSE <<Head(s)>>) \o EscapedText(Tail(s))

\* the text of a JSON value
RECURSIVE JsonText(_)
RECURSIVE JsonElementsText(_, _)
RECURSIVE JsonMembersText(_, _, _)

JsonElementsText(elems, first) ==
    IF elems = <<>> THEN <<>>
    ELSE (IF first THEN <<>> ELSE <<",">>) \o JsonText(Head(elems))
         \o JsonElementsText(Tail(elems), FALSE)

JsonMembersText(obj, keys, first) ==
    IF keys = {} THEN <<>>
    ELSE LET k == CHOOSE x \in keys : TRUE
         IN  (IF first THEN <<>> ELSE <<",">>)
             \o Quoted(EscapedText(k)) \o <<":">> \o JsonText(obj[k])
             \o JsonMembersText(obj, keys \ {k}, FALSE)

JsonText(j) ==
    CASE j.type = "int" -> IntText(j.v)
      [] j.type = "str" -> Quoted(EscapedText(j.v))
      [] j.type = "arr" -> <<"[">> \o JsonElementsText(j.v, TRUE) \o <<"]">>
      [] j.type = "obj" -> <<"{">> \o JsonMembersText(j.v, DOMAIN j.v, TRUE) \o <<"}">>

MemberText(key, shape, n) ==
    LET field == FieldOf(key, shape, n)
    IN  IF field.has THEN <<",">> \o Quoted(key) \o <<":">> \o JsonText(field.json) ELSE <<>>

\* the stored text of a document; the leading "," of the first member dropped
StoredText(doc) ==
    LET members ==
            MemberText(K_version, doc.version, 0)
            \o MemberText(K_artifact_name, doc.artifact_name, 0)
            \o MemberText(K_artifact_group, doc.artifact_group, 0)
            \o MemberText(K_payload_types, doc.payload_types, doc.payloads)
            \o MemberText(K_artifact_provides, doc.artifact_provides, 0)
            \o MemberText(K_artifact_clears_provides, doc.artifact_clears_provides, 0)
    IN  <<"{">> \o (IF members = <<>> THEN <<>> ELSE Tail(members)) \o <<"}">>

\* In this specification pre is what the store entry was made from: the
\* record saved, or the document whose text is stored.
InitRecord ==
    /\ prov \in {[artifact_name |-> <<>>, artifact_group |-> <<>>, artifact_provides |-> <<>>]}
    /\ op = "None"
    /\ header = NoHeader
    /\ result = NoResult
    /\ reboot = "No"
    /\ calls = <<>>
    /\ ret = "none"
    /\ \/ /\ pc = "new"
          /\ data \in ValidRecords
          /\ db_rec = Absent
          /\ pre = data
       \/ /\ pc = "stored"
          /\ data = EmptyData
          /\ pre \in StoredDocs
          /\ db_rec = Stored(StoredText(pre))
       \/ /\ pc = "empty"
          /\ data = EmptyData
          /\ pre = EmptyData
          /\ db_rec = Absent

RecordSave(write_err) ==
    /\ pc = "new"
    /\ db_rec' = SaveStandaloneData(db_rec, data, write_err)
    /\ pc' = IF write_err = NoError THEN "saved" ELSE "save failed"
    /\ data' = EmptyData
    /\ UNCHANGED <<prov, op, header, result, reboot, calls, ret, pre>>

RecordLoad(read_err) ==
    LET exp_in_progress == LoadStandaloneData(db_rec, read_err, data)
    IN  /\ pc \in {"saved", "stored"}
        /\ pc' = IF pc = "saved" THEN "saved and loaded" ELSE "loaded"
        /\ data' = exp_in_progress.dst
        /\ result' = [result |-> IF ~exp_in_progress.ok THEN "error"
                                 ELSE IF exp_in_progress.val THEN "true" ELSE "false",
                      err |-> exp_in_progress.err]
        /\ UNCHANGED <<db_rec, prov, op, header, reboot, calls, ret, pre>>

NextRecord ==
    \/ \E e \in DbOutcomes("Write") : RecordSave(e)
    \/ \E e \in DbOutcomes("Read") : RecordLoad(e)

SpecRecord == InitRecord /\ [][NextRecord]_vars


-----------------------------------------------------------------------------
(* Properties of the record, checked under SpecRecord *)

\* the load ended without the store failing to read
ReadWorked == result.err = NoError \/ result.err[1].code # "database.Error"

\* C5: round trip. A valid record R that SaveStandaloneData wrote and
\* LoadStandaloneData read back is reported as an update in progress and
\* comes back equal to R in every field.
C5_RoundTrip ==
    (pc = "saved and loaded" /\ ReadWorked) => (result.result = "true" /\ data = pre)

\* the fields a document must have, with the right types, for
\* LoadStandaloneData to reach its checks of the values
Readable(doc) ==
    /\ doc.version \in {"1", "2"}
    /\ doc.artifact_name \in {"empty", "a"}
    /\ doc.artifact_group = "g"
    /\ doc.payload_types = "strings"

LoadedStored == pc = "loaded" /\ ReadWorked

FailedWith(code, msg) ==
    /\ result.result = "error"
    /\ result.err = MakeError(code, msg)

\* C6 as stated: a stored record fails to load with a database-value error
\* when its name or its payload types are empty, with an unsupported-operation
\* error when it has two or more payload types, and with the
\* unsupported-version error whenever its version is not
\* standalone_data_version, whatever its other fields are.
C6_AnyVersionMismatchIsReported ==
    LoadedStored =>
        /\ pre.version = "2" => FailedWith("not_supported", "version")
        /\ (pre.version = "1" /\ Readable(pre)) =>
               IF pre.artifact_name = "empty" \/ pre.payloads = 0
               THEN result.result = "error" /\ result.err[1].code = "DatabaseValueError"
               ELSE pre.payloads >= 2 => FailedWith("not_supported", "multiple payloads")

\* C6 amended: the same, for the records whose Version, ArtifactName,
\* ArtifactGroup and PayloadTypes are present with the right types; the
\* version is checked first, then the name, then the payload types.
C6_SchemaValidation ==
    (LoadedStored /\ Readable(pre)) =>
        IF pre.version = "2" THEN FailedWith("not_supported", "version")
        ELSE IF pre.artifact_name = "empty"
        THEN FailedWith("DatabaseValueError", "ArtifactName is empty")
        ELSE IF pre.payloads = 0
        THEN FailedWith("DatabaseValueError", "PayloadTypes is empty")
        ELSE IF pre.payloads >= 2
        THEN FailedWith("not_supported", "multiple payloads")
        ELSE result.result = "true"

\* a record of another version, with an empty name and too many payload
\* types, has been loaded
C6_Witness ==
    /\ LoadedStored
    /\ Readable(pre)
    /\ pre.version = "2"
    /\ pre.artifact_name = "empty"
    /\ pre.payloads >= 2
    /\ FailedWith("not_supported", "version")


-----------------------------------------------------------------------------
(* Properties of the orchestrator, checked under Spec *)

Returned(cmd) == pc = "idle" /\ ret = "returned" /\ op = cmd

Called(verb) == \E i \in DOMAIN calls : calls[i][1] = verb

\* the chain result.err holds the error e (a chain of one)
Reported(e) == \E i \in DOMAIN result.err : result.err[i] = e[1]

\* the command ended at once because the store could not be read
StoreReadFailed == result.err = DbError("Read")

\* the record is one LoadStandaloneData accepts
ValidRecord(rec) == rec.present /\ LoadStandaloneData(rec, NoError, EmptyData).val

\* the data of the update the command works on: built from the header by
\* Install, loaded from the record it found by Commit and Rollback
InFlight ==
    IF op = "Install" THEN StandaloneDataFromPayloadHeaderView(header)
    ELSE LoadStandaloneData(pre.rec, NoError, EmptyData).dst

\* provenance p is that of the artifact with data d
NamesArtifact(p, d) ==
    /\ p.artifact_name = d.artifact_name
    /\ p.artifact_group = d.artifact_group
    /\ d.artifact_provides.set =>
           \A k \in DOMAIN d.artifact_provides.val :
               /\ k \in DOMAIN p.artifact_provides
               /\ p.artifact_provides[k] = d.artifact_provides.val[k]

\* C1: mutual exclusion. An Install that finds a valid standalone record in
\* the store (and can read the store) returns FailedNothingDone with the
\* operation-in-progress error at once: it calls no update-module operation
\* and leaves the record and the provenance as they were.
C1_MutualExclusion ==
    (op = "Install" /\ ValidRecord(pre.rec)) =>
        /\ pc = "idle"
        /\ ret = "returned"
        /\ calls = <<>>
        /\ Store = pre
        /\ result.result = "FailedNothingDone"
        /\ ~StoreReadFailed =>
               result.err = MakeError("operation_in_progress", "Update already in progress")

\* an Install was refused because an update is in progress
C1_Witness ==
    /\ Returned("Install")
    /\ ValidRecord(pre.rec)
    /\ result.err = MakeError("operation_in_progress", "Update already in progress")

CommittedResults ==
    {"Committed", "InstalledAndCommitted", "InstalledAndCommittedRebootRequired"}

\* the positions between a successful ArtifactCommit and the commit transaction
CommitWindow == {"CommitCleanup", "CommitArtifactData"}

\* the store holds the record of the update in flight, and a command that
\* starts now finds it
RecordInFlight ==
    LET exp_in_progress == LoadStandaloneData(db_rec, NoError, EmptyData)
    IN  /\ db_rec.present
        /\ exp_in_progress.ok
        /\ exp_in_progress.val
        /\ exp_in_progress.dst = InFlight

\* C2: atomic commit. When a command returns a committed result the store
\* holds the provenance of the new artifact and no record. Between a
\* successful ArtifactCommit and the commit transaction, and after the
\* process died there, the record is in the store and the provenance is
\* what the command found. A Commit whose ArtifactCommit, Cleanup and
\* transaction succeed returns Committed.
C2_AtomicCommit ==
    /\ (pc = "idle" /\ ret = "returned" /\ result.result \in CommittedResults) =>
           (~db_rec.present /\ NamesArtifact(prov, InFlight))
    /\ (pc \in CommitWindow \/ (pc = "idle" /\ ret \in CommitWindow)) =>
           (RecordInFlight /\ prov = pre.prov)
    /\ (Returned("Commit")
        /\ calls = <<  <<"ArtifactCommit", "ok">>, <<"Cleanup", "ok">>  >>
        /\ result.err = NoError) =>
           result.result = "Committed"

\* a Commit has committed the update that an earlier Install left in the store
C2_Witness ==
    /\ Returned("Commit")
    /\ result.result = "Committed"
    /\ pre.rec.present
    /\ ~db_rec.present
    /\ prov # pre.prov
    /\ NamesArtifact(prov, InFlight)

\* C3: no disagreement window. While the record is in the store the
\* provenance is what the command found; a step that changes the provenance
\* removes the record in the same step; and a commit or broken-artifact
\* commit that removes the record writes the provenance in the same step.
C3_NoDisagreementWindow ==
    /\ []((op # "None" /\ db_rec.present) => prov = pre.prov)
    /\ [][/\ prov' # prov => (db_rec.present /\ ~db_rec'.present)
          /\ (pc = "CommitArtifactData" /\ ~db_rec'.present) => NamesArtifact(prov', data)
          /\ (/\ pc \in {"FailureFinalize", "RollbackFinalize"}
              /\ result.result \notin {"FailedAndRolledBack", "RolledBack"}
              /\ ~db_rec'.present) => NamesArtifact(prov', BrokenData(data))]_vars

\* an Install has recorded its artifact as broken and removed the record
C3_Witness ==
    /\ Returned("Install")
    /\ result.result = "FailedAndNoRollback"
    /\ ~db_rec.present
    /\ prov.artifact_name = header.artifact_name \o broken_artifact_name_suffix

\* InstallationFailureHandler ran and its DoRollback was told by the module
\* that it does not support rollback
HandlerWithoutRollbackSupport ==
    \E i \in DOMAIN calls :
        /\ calls[i] = <<"SupportsRollback", "no">>
        /\ i + 1 \in DOMAIN calls
        /\ calls[i + 1][1] = "ArtifactFailure"

\* the provenance names the artifact in flight as broken, and the record is gone
BrokenRecorded ==
    LET name == InFlight.artifact_name \o broken_artifact_name_suffix
    IN  /\ ~db_rec.present
        /\ prov.artifact_name = name
        /\ InFlight.artifact_provides.set =>
               /\ P_artifact_name \in DOMAIN prov.artifact_provides
               /\ prov.artifact_provides[P_artifact_name] = name

\* C4 as stated: after InstallationFailureHandler for a module without
\* rollback support the provenance names the broken artifact and the record
\* is gone.
C4_BrokenAlwaysRecorded ==
    (pc = "idle" /\ ret = "returned" /\ HandlerWithoutRollbackSupport) => BrokenRecorded

\* C4 amended: so it is when the transaction of CommitBrokenArtifact
\* succeeds; when it fails the record stays, the provenance is what the
\* command found and the result is FailedAndRollbackFailed.
C4_BrokenRecorded ==
    (pc = "idle" /\ ret = "returned" /\ HandlerWithoutRollbackSupport) =>
        IF Reported(DbError("Commit"))
        THEN db_rec.present /\ prov = pre.prov /\ result.result = "FailedAndRollbackFailed"
        ELSE BrokenRecorded

\* a Commit whose ArtifactCommit failed has recorded an artifact with
\* provides as broken
C4_Witness ==
    /\ Returned("Commit")
    /\ HandlerWithoutRollbackSupport
    /\ InFlight.artifact_provides.set
    /\ BrokenRecorded

\* C7: no update in progress. With no standalone_state_key in the store,
\* LoadStandaloneData reports "no update in progress" without an error, and
\* Commit and Rollback return NoUpdateInProgress with a
\* NoUpdateInProgressError, call no update-module operation and leave the
\* store as it was.
C7_NoUpdateInProgress ==
    /\ ~db_rec.present => LoadStandaloneData(db_rec, NoError, EmptyData) = LoadBool(FALSE, EmptyData)
    /\ (op \in {"Commit", "Rollback"} /\ ~pre.rec.present) =>
           /\ pc = "idle"
           /\ ret = "returned"
           /\ calls = <<>>
           /\ Store = pre
           /\ ~StoreReadFailed =>
                  /\ result.result = "NoUpdateInProgress"
                  /\ result.err = MakeError("NoUpdateInProgressError",
                                            IF op = "Commit" THEN "Cannot commit"
                                            ELSE "Cannot roll back")

\* a Rollback found nothing to roll back
C7_Witness ==
    /\ Returned("Rollback")
    /\ ~pre.rec.present
    /\ result.result = "NoUpdateInProgress"

\* the calls of an Install up to the rollback query of DoInstallStates, all
\* successful, with the answers reb and sup
InstallCalls(reb, sup) ==
    <<  <<"PrepareFileTree", "ok">>, <<"Download", "ok">>, <<"ArtifactInstall", "ok">>,
        <<"NeedsReboot", reb>>, <<"SupportsRollback", sup>>  >>

InstallReached(reb, sup) ==
    /\ op = "Install"
    /\ Len(calls) >= Len(InstallCalls(reb, sup))
    /\ SubSeq(calls, 1, Len(InstallCalls(reb, sup))) = InstallCalls(reb, sup)

\* C8: install awaiting commit. An Install that found no record, whose steps
\* up to ArtifactInstall succeeded and whose module supports rollback,
\* returns Installed when NeedsReboot said No and InstalledRebootRequired
\* otherwise, without an error; the record is in the store with the one
\* payload type of the artifact, the provenance is unchanged, and neither
\* ArtifactCommit nor Cleanup was called.
C8_InstallAwaitingCommit ==
    \A reb \in RebootActions :
        InstallReached(reb, "yes") =>
            /\ Returned("Install")
            /\ ~pre.rec.present
            /\ result.result = IF reb = "No" THEN "Installed" ELSE "InstalledRebootRequired"
            /\ result.err = NoError
            /\ RecordInFlight
            /\ LoadStandaloneData(db_rec, NoError, EmptyData).dst.payload_types
                   = <<header.payload_type>>
            /\ prov = pre.prov
            /\ ~Called("ArtifactCommit")
            /\ ~Called("Cleanup")

\* an Install ended awaiting commit, with a reboot required
C8_Witness ==
    /\ InstallReached("Yes", "yes")
    /\ result.result = "InstalledRebootRequired"
    /\ db_rec.present

\* C9: implicit commit. When the module answers DoInstallStates that it does
\* not support rollback, the next call of the same Install is ArtifactCommit;
\* if ArtifactCommit, Cleanup and the transaction succeed, Install returns
\* InstalledAndCommitted when NeedsReboot said No and
\* InstalledAndCommittedRebootRequired otherwise, the record is gone and the
\* provenance names the new artifact.
C9_ImplicitCommit ==
    \A reb \in RebootActions :
        InstallReached(reb, "no") =>
            /\ Len(calls) = Len(InstallCalls(reb, "no")) => pc = "ArtifactCommit"
            /\ Len(calls) > Len(InstallCalls(reb, "no")) =>
                   calls[Len(InstallCalls(reb, "no")) + 1][1] = "ArtifactCommit"
            /\ (/\ Returned("Install")
                /\ calls = InstallCalls(reb, "no")
                             \o <<  <<"ArtifactCommit", "ok">>, <<"Cleanup", "ok">>  >>
                /\ result.err = NoError) =>
                   /\ result.result = IF reb = "No" THEN "InstalledAndCommitted"
                                      ELSE "InstalledAndCommittedRebootRequired"
                   /\ ~db_rec.present
                   /\ NamesArtifact(prov, InFlight)

\* an Install committed at once and asks for a reboot
C9_Witness ==
    /\ Returned("Install")
    /\ InstallReached("Yes", "no")
    /\ result.result = "InstalledAndCommittedRebootRequired"
    /\ ~db_rec.present

\* C10: the install error is reported. When ArtifactInstall fails in an
\* Install on a module without rollback support, the returned Error is not
\* NoError and starts with the error of ArtifactInstall, and the Result is
\* FailedAndNoRollback when no later step fails.
C10_InstallErrorReported ==
    (/\ Returned("Install")
     /\ Len(calls) >= 4
     /\ calls[3] = <<"ArtifactInstall", "error">>
     /\ calls[4] = <<"SupportsRollback", "no">>) =>
        /\ result.err # NoError
        /\ result.err[1] = ModuleError("ArtifactInstall")[1]
        /\ (\A i \in DOMAIN calls : i > 4 => calls[i][2] = "ok") /\ ~Reported(DbError("Commit"))
               => result.result = "FailedAndNoRollback"


\* C11: explicit rollback. A Rollback that found a record and returns
\* RolledBack returns no error; its calls are SupportsRollback answered yes,
\* ArtifactRollback and Cleanup, both successful; the record is gone and the
\* provenance is what the command found, which is what it was before the
\* Install that wrote the record (C3: it does not change while the record
\* is in the store).
C11_ExplicitRollback ==
    (Returned("Rollback") /\ result.result = "RolledBack") =>
        /\ pre.rec.present
        /\ result.err = NoError
        /\ calls = <<  <<"SupportsRollback", "yes">>, <<"ArtifactRollback", "ok">>,
                       <<"Cleanup", "ok">>  >>
        /\ ~db_rec.present
        /\ prov = pre.prov

\* a Rollback has rolled back the update of an earlier Install
C11_Witness ==
    /\ Returned("Rollback")
    /\ result.result = "RolledBack"
    /\ ValidRecord(pre.rec)
    /\ ~db_rec.present

\* C12: rollback without capability. When DoRollback gives NoRollback (the
\* module answers no, or the query fails) Rollback returns NoRollback after
\* that one call: neither ArtifactRollback nor Cleanup is called, record and
\* provenance are what the command found, and the record still loads as the
\* update in progress.
C12_RollbackWithoutCapability ==
    (op = "Rollback" /\ Len(calls) >= 1 /\ calls[1][2] \in {"no", "error"}) =>
        /\ Returned("Rollback")
        /\ Len(calls) = 1
        /\ result.result = "NoRollback"
        /\ result.err = IF calls[1][2] = "no" THEN NoError ELSE ModuleError("SupportsRollback")
        /\ Store = pre
        /\ RecordInFlight

\* a Rollback ended because the module does not support rollback
C12_Witness ==
    /\ Returned("Rollback")
    /\ calls = <<  <<"SupportsRollback", "no">>  >>
    /\ result.result = "NoRollback"
    /\ db_rec.present

\* the operations of the update module that write to the device
DeviceVerbs == {"Download", "ArtifactInstall", "ArtifactCommit", "ArtifactRollback"}

\* the positions of an Install before DoInstallStates calls Download
BeforeDownload == {"PrepareFileTree", "InstallCleanup", "SaveStandaloneData", "Next"}

\* C13: record before device writes. A step of Install that calls Download,
\* ArtifactInstall, ArtifactCommit or ArtifactRollback starts with the record
\* of the update in the store; an Install whose save failed has called none
\* of them; and from the position of Download onward, also after the process
\* died there, the store holds the record and a command that starts finds it.
C13_RecordBeforeDeviceWrites ==
    /\ [][(/\ op = "Install"
           /\ pc # "idle"
           /\ calls' # calls
           /\ calls' # <<>>
           /\ calls'[Len(calls')][1] \in DeviceVerbs) => RecordInFlight]_vars
    /\ []((Returned("Install") /\ Reported(DbError("Write"))) =>
              \A verb \in DeviceVerbs : ~Called(verb))
    /\ []((/\ op = "Install"
           /\ \/ pc \notin BeforeDownload \cup {"idle"}
              \/ pc = "idle" /\ ret \notin BeforeDownload \cup {"none", "returned"})
              => RecordInFlight)

\* the process died in an Install after ArtifactInstall was called
C13_Witness ==
    /\ op = "Install"
    /\ pc = "idle"
    /\ ret = "NeedsReboot"
    /\ db_rec.present

\* a stored document that is valid but for the fields a claim is about
ValidBut(doc, fields) ==
    /\ "version" \in fields \/ doc.version = "1"
    /\ "artifact_name" \in fields \/ doc.artifact_name = "a"
    /\ "artifact_group" \in fields \/ doc.artifact_group = "g"
    /\ "payload_types" \in fields \/ (doc.payload_types = "strings" /\ doc.payloads = 1)
    /\ "artifact_provides" \in fields \/ doc.artifact_provides \in {"missing", "map"}
    /\ "artifact_clears_provides" \in fields
           \/ doc.artifact_clears_provides \in {"missing", "strings"}

\* C14: optional group. A stored record without ArtifactGroup that is valid
\* otherwise loads as an update in progress with an empty artifact_group.
C14_OptionalGroup ==
    (LoadedStored /\ pre.artifact_group = "missing" /\ ValidBut(pre, {"artifact_group"})) =>
        /\ result.result = "true"
        /\ data.artifact_group = <<>>

\* the optional fields of a document that are present with a wrong type
WrongShape(doc) ==
    \/ doc.artifact_provides \in {"ints", "string"}
    \/ doc.artifact_clears_provides \in {"ints", "string"}

\* C19: wrong-shape fields are fatal. A stored record whose
\* ArtifactTypeInfoProvides is present but no object of strings, or whose
\* ArtifactClearsProvides is present but no array of strings, fails to load
\* with an error and is not reported as an update in progress.
C19_WrongShapeIsFatal ==
    (LoadedStored /\ WrongShape(pre)) =>
        /\ result.result = "error"
        /\ result.err # NoError

\* the calls of the running InstallationFailureHandler: those from its
\* DoRollback, which begins with the last SupportsRollback of the command
HandlerLog ==
    LET first == CHOOSE i \in DOMAIN calls :
                     /\ calls[i][1] = "SupportsRollback"
                     /\ \A j \in DOMAIN calls : j > i => calls[j][1] # "SupportsRollback"
    IN  SubSeq(calls, first, Len(calls))

\* what InstallationFailureHandler makes of DoRollback's result
HandlerResultOf(r) ==
    CASE r = "RolledBack" -> "FailedAndRolledBack"
      [] r = "NoRollback" -> "FailedAndNoRollback"
      [] r = "RollbackFailed" -> "FailedAndRollbackFailed"

\* InstallationFailureHandler is past its DoRollback, or has returned
HandlerAfterDoRollback ==
    /\ op \in {"Install", "Commit"}
    /\ \/ pc \in {"ArtifactFailure", "FailureCleanup", "FailureFinalize"}
       \/ pc = "idle" /\ ret = "returned" /\ Called("ArtifactFailure")

\* C17: failure handler protocol. A run of InstallationFailureHandler calls
\* DoRollback (SupportsRollback, and ArtifactRollback when the answer is yes),
\* then ArtifactFailure, then Cleanup, each once, then finalizes. The result
\* is DoRollback's, mapped, and FailedAndRollbackFailed as soon as
\* ArtifactFailure, Cleanup or the finalization fails. The finalization
\* removes the record and leaves the provenance when the result before it is
\* FailedAndRolledBack, and otherwise commits the broken artifact.
C17_FailureHandlerProtocol ==
    HandlerAfterDoRollback =>
        LET h == HandlerLog
            n == IF h[1][2] = "yes" THEN 2 ELSE 1
            rolled == IF h[1][2] # "yes" THEN "NoRollback"
                      ELSE IF h[2][2] = "ok" THEN "RolledBack" ELSE "RollbackFailed"
            demoted == \E i \in DOMAIN h : i > n /\ h[i][2] = "error"
            before == IF demoted THEN "FailedAndRollbackFailed" ELSE HandlerResultOf(rolled)
            failed == Reported(DbError("Commit"))
        IN  /\ h[1][2] = "yes" => h[2][1] = "ArtifactRollback"
            /\ Len(h) = CASE pc = "ArtifactFailure" -> n
                          [] pc = "FailureCleanup" -> n + 1
                          [] OTHER -> n + 2
            /\ Len(h) > n => h[n + 1][1] = "ArtifactFailure"
            /\ Len(h) > n + 1 => h[n + 2][1] = "Cleanup"
            /\ pc # "idle" => (result.result = before /\ RecordInFlight /\ prov = pre.prov)
            /\ pc = "idle" =>
                   /\ result.result = IF failed THEN "FailedAndRollbackFailed" ELSE before
                   /\ failed => (db_rec.present /\ prov = pre.prov)
                   /\ ~failed =>
                          IF before = "FailedAndRolledBack"
                          THEN ~db_rec.present /\ prov = pre.prov
                          ELSE BrokenRecorded

\* the handler of an Install rolled back, and its Cleanup failed
C17_Witness ==
    /\ Returned("Install")
    /\ Len(calls) >= 4
    /\ SubSeq(calls, Len(calls) - 3, Len(calls))
           = <<  <<"SupportsRollback", "yes">>, <<"ArtifactRollback", "ok">>,
                 <<"ArtifactFailure", "ok">>, <<"Cleanup", "error">>  >>
    /\ result.result = "FailedAndRollbackFailed"
    /\ ~db_rec.present

\* the command ran DoCommit past a successful ArtifactCommit and returned
AfterArtifactCommit ==
    /\ pc = "idle"
    /\ ret = "returned"
    /\ Len(calls) >= 2
    /\ calls[Len(calls) - 1] = <<"ArtifactCommit", "ok">>
    /\ calls[Len(calls)][1] = "Cleanup"

\* C18: post-commit failure. InstalledButFailedInPostCommit is returned only
\* after a successful ArtifactCommit of the same command, and exactly when
\* Cleanup or the commit transaction failed. After a failed Cleanup the
\* transaction is still run: if it succeeds the record is gone and the
\* provenance names the new artifact; if it fails the record is in the
\* store and the provenance is what the command found.
C18_PostCommitFailure ==
    /\ (pc = "idle" /\ ret = "returned" /\ result.result = "InstalledButFailedInPostCommit")
           => AfterArtifactCommit
    /\ AfterArtifactCommit =>
           /\ result.result = "InstalledButFailedInPostCommit"
                  <=> (calls[Len(calls)][2] = "error" \/ Reported(DbError("Commit")))
           /\ IF Reported(DbError("Commit"))
              THEN RecordInFlight /\ prov = pre.prov
              ELSE ~db_rec.present /\ NamesArtifact(prov, InFlight)

\* a Commit whose Cleanup failed has still committed the provenance
C18_Witness ==
    /\ Returned("Commit")
    /\ calls = <<  <<"ArtifactCommit", "ok">>, <<"Cleanup", "error">>  >>
    /\ result.result = "InstalledButFailedInPostCommit"
    /\ ~db_rec.present
    /\ prov # pre.prov

\* C20: FailedNothingDone leaves nothing behind. An Install that found no
\* record and returns FailedNothingDone has not called ArtifactInstall, has
\* left the provenance as it was and leaves no record in the store.
C20_NothingLeftBehind ==
    (Returned("Install") /\ ~pre.rec.present /\ result.result = "FailedNothingDone") =>
        /\ ~Called("ArtifactInstall")
        /\ prov = pre.prov
        /\ ~db_rec.present

-----------------------------------------------------------------------------
(* Specification of the store context: MenderContext::Initialize and       *)
(* MenderContext::LoadProvides on a store that holds the provenance keys,  *)
(* the authentication keys and the standalone record as texts. Here prov   *)
(* is the store without the record, one entry per key, data is the         *)
(* ProvidesData returned last, and pre is the store the call found.        *)

P_artifact_group == <<"a","r","t","i","f","a","c","t","_","g","r","o","u","p">>

\* kv_db::ReadString(txn, key, dst, missing_ok = true): a missing key reads
\* as the empty string
ReadString(entry) == IF entry.present THEN entry.bytes ELSE <<>>

\* Json::GetChildren(): the members of an object
GetChildren(json) ==
    IF json.type = "obj" THEN Expected(json.v)
    ELSE Unexpected(MakeError("json.TypeError", "GetChildren"))

\* ret[key] = value of LoadProvides; ret_map is its ret_map
ProvidesPut(ret_map, key, value) ==
    [k \in (DOMAIN ret_map) \cup {key} |-> IF k = key THEN value ELSE ret_map[k]]

\* MenderContext::LoadProvides(); read_err is the error of the read
\* transaction
LoadProvides(store, read_err) ==
    LET artifact_name == ReadString(store.artifact_name)
        artifact_group == ReadString(store.artifact_group)
        artifact_provides_str == ReadString(store.artifact_provides)
        named == IF artifact_name # <<>>
                 THEN ProvidesPut(<<>>, P_artifact_name, artifact_name) ELSE <<>>
        ret_map == IF artifact_group # <<>>
               THEN ProvidesPut(named, P_artifact_group, artifact_group) ELSE named
        ex_j == JsonLoad(artifact_provides_str)
        ex_children == GetChildren(ex_j.val)
    IN  IF read_err # NoError THEN Unexpected(read_err)
        ELSE IF artifact_provides_str = <<>> THEN Expected(ret_map)
        ELSE IF ~ex_j.ok THEN Unexpected(ex_j.err)
        ELSE IF ~ex_children.ok THEN Unexpected(ex_children.err)
        ELSE IF ~AllStrings(ex_children.val)
        THEN Unexpected(MakeError("json.TypeError", "Unexpected non-string data in provides"))
        ELSE Expected([k \in (DOMAIN ret_map) \cup (DOMAIN ex_children.val) |->
                          IF k \in DOMAIN ex_children.val
                          THEN ex_children.val[k].v ELSE ret_map[k]])

\* Initialize that removes auth_token only
Initialize_KeepsInvalidator(store, open_err, token_err, invalidator_err) ==
    IF open_err # NoError THEN [store |-> store, err |-> open_err]
    ELSE IF token_err # NoError THEN [store |-> store, err |-> token_err]
    ELSE [store |-> [store EXCEPT !.auth_token = Absent], err |-> invalidator_err]

\* MenderContext::Initialize(config) of the build with the store: the store
\* after it and the error returned; the arguments are the errors of Open
\* and of the two Remove
Initialize(store, open_err, token_err, invalidator_err) ==
    LET first == [store EXCEPT !.auth_token = Absent]
        second == [first EXCEPT !.auth_token_cache_invalidator = Absent]
    IN  IF open_err # NoError THEN [store |-> store, err |-> open_err]
        ELSE IF token_err # NoError THEN [store |-> store, err |-> token_err]
        ELSE IF invalidator_err # NoError THEN [store |-> first, err |-> invalidator_err]
        ELSE [store |-> second, err |-> NoError]

\* the texts found under artifact_provides: objects of strings, also with an
\* empty value and with the key artifact_name; an object with a number; a
\* string; a text that is no JSON; the empty text
ProvidesTexts ==
    {<<>>, <<"[">>,
     JsonText(JStr(<<"s">>)),
     JsonText(JObj(<<>>)),
     JsonText(JObj(OneEntry(<<"k">>, JStr(<<"v">>)))),
     JsonText(JObj(OneEntry(<<"k">>, JStr(<<>>)))),
     JsonText(JObj(OneEntry(<<"k">>, JInt(1)))),
     JsonText(JObj(OneEntry(P_artifact_name, JStr(<<"x">>))))}

\* the stores the context is opened on
ContextStores ==
    [artifact_name : {Absent, Stored(<<>>), Stored(<<"a">>)},
     artifact_group : {Absent, Stored(<<>>), Stored(<<"g">>)},
     artifact_provides : {Absent} \cup {Stored(t) : t \in ProvidesTexts},
     auth_token : {Absent, Stored(<<"t">>)},
     auth_token_cache_invalidator : {Absent, Stored(<<"i">>)}]

\* the standalone record of an update in progress
SomeRecordText ==
    StandaloneDataText([version |-> standalone_data_version, artifact_name |-> <<"a">>,
                        artifact_group |-> <<>>, artifact_provides |-> Unset,
                        artifact_clears_provides |-> Unset,
                        payload_types |-> <<  <<"m">>  >>])

InitContext ==
    /\ prov \in ContextStores
    /\ db_rec \in {Absent, Stored(SomeRecordText)}
    /\ op = "None"
    /\ pc = "idle"
    /\ data = <<>>
    /\ header = NoHeader
    /\ result = NoResult
    /\ reboot = "No"
    /\ calls = <<>>
    /\ ret = "none"
    /\ pre = [rec |-> db_rec, prov |-> prov]

ContextInitialize(open_err, token_err, invalidator_err) ==
    LET after == Initialize(prov, open_err, token_err, invalidator_err)
    IN  /\ op' = "Initialize"
        /\ pre' = Store
        /\ prov' = after.store
        /\ result' = [result |-> Outcome(after.err), err |-> after.err]
        /\ ret' = "returned"
        /\ UNCHANGED <<db_rec, pc, data, header, reboot, calls>>

ContextLoadProvides(read_err) ==
    LET loaded == LoadProvides(prov, read_err)
    IN  /\ op' = "LoadProvides"
        /\ pre' = Store
        /\ data' = loaded.val
        /\ result' = [result |-> Outcome(loaded.err), err |-> loaded.err]
        /\ ret' = "returned"
        /\ UNCHANGED <<db_rec, prov, pc, header, reboot, calls>>

NextContext ==
    \/ \E open_err \in DbOutcomes("Open") :
           \E token_err \in DbOutcomes("Remove") : \E invalidator_err \in DbOutcomes("Remove") :
               ContextInitialize(open_err, token_err, invalidator_err)
    \/ \E read_err \in DbOutcomes("Read") : ContextLoadProvides(read_err)

SpecContext == InitContext /\ [][NextContext]_vars

-----------------------------------------------------------------------------
(* Properties of the store context, checked under SpecContext *)

\* the mapping stored under artifact_provides, as JSON members
StoredProvides(store) ==
    LET text == ReadString(store.artifact_provides)
    IN  IF text = <<>> THEN <<>> ELSE JsonLoad(text).val.v

\* C15: provenance shape. A successful LoadProvides returns a mapping whose
\* keys are artifact_name, artifact_group and the keys of the stored
\* artifact_provides, without those whose stored value is the empty
\* string: no entry of the mapping is empty. It leaves the store as it was.
C15_ProvenanceShape ==
    (op = "LoadProvides" /\ ret = "returned" /\ result.err = NoError) =>
        LET stored == StoredProvides(pre.prov)
        IN  /\ \A k \in DOMAIN data : data[k] # <<>>
            /\ \A k \in DOMAIN data :
                   k \in {P_artifact_name, P_artifact_group} \cup DOMAIN stored
            /\ ReadString(pre.prov.artifact_name) # <<>> => P_artifact_name \in DOMAIN data
            /\ ReadString(pre.prov.artifact_group) # <<>> => P_artifact_group \in DOMAIN data
            /\ \A k \in DOMAIN stored : stored[k].v # <<>> => k \in DOMAIN data
            /\ Store = pre

\* C16: context open. After a successful Initialize the store holds neither
\* auth_token nor auth_token_cache_invalidator, and the record and the
\* provenance keys are what they were; a successful Initialize that follows
\* a successful Initialize leaves the whole store as it is.
C16_ContextOpen ==
    /\ []((op = "Initialize" /\ ret = "returned" /\ result.err = NoError) =>
              /\ ~prov.auth_token.present
              /\ ~prov.auth_token_cache_invalidator.present
              /\ db_rec = pre.rec
              /\ prov.artifact_name = pre.prov.artifact_name
              /\ prov.artifact_group = pre.prov.artifact_group
              /\ prov.artifact_provides = pre.prov.artifact_provides)
    /\ [][(/\ op = "Initialize" /\ result.err = NoError
           /\ op' = "Initialize" /\ result'.err = NoError)
              => (prov' = prov /\ db_rec' = db_rec)]_vars

\* Initialize removed both keys from a store that holds a record
C16_Witness ==
    /\ op = "Initialize"
    /\ result.err = NoError
    /\ pre.prov.auth_token.present
    /\ pre.prov.auth_token_cache_invalidator.present
    /\ db_rec.present
    /\ ~prov.auth_token.present
    /\ ~prov.auth_token_cache_invalidator.present

-----------------------------------------------------------------------------
(* Properties of the orchestrator, checked under Spec (continued) *)

\* ArtifactRollback of the running command succeeded
RollbackSucceeded == \E i \in DOMAIN calls : calls[i] = <<"ArtifactRollback", "ok">>

\* ArtifactRollback succeeded and so did every call after it
CleanlyRolledBack ==
    \E i \in DOMAIN calls :
        /\ calls[i] = <<"ArtifactRollback", "ok">>
        /\ \A j \in DOMAIN calls : j > i => calls[j][2] = "ok"

\* the command wrote the broken name of the artifact in flight
BrokenWritten ==
    /\ prov # pre.prov
    /\ prov.artifact_name = InFlight.artifact_name \o broken_artifact_name_suffix

\* C21 as stated: whenever ArtifactRollback succeeded, also when
\* ArtifactFailure or Cleanup fails afterwards, the provenance stays what the
\* command found and no broken name is written.
C21_NeverBrokenAfterRollback ==
    (pc = "idle" /\ ret = "returned" /\ RollbackSucceeded) => prov = pre.prov

\* C21 amended: the broken name is written only when the rollback was
\* unsupported or failed, or when ArtifactFailure or Cleanup failed after a
\* successful ArtifactRollback. When ArtifactRollback and every call after
\* it succeeded the provenance stays what the command found; when
\* ArtifactFailure or Cleanup failed after it, the broken name is recorded
\* (unless the transaction of CommitBrokenArtifact fails too).
C21_BrokenUnlessCleanlyRolledBack ==
    (pc = "idle" /\ ret = "returned") =>
        /\ BrokenWritten => ~CleanlyRolledBack
        /\ CleanlyRolledBack => prov = pre.prov
        /\ (RollbackSucceeded /\ ~CleanlyRolledBack) =>
               IF Reported(DbError("Commit")) THEN prov = pre.prov ELSE BrokenRecorded

\* a Rollback whose ArtifactRollback succeeded and whose Cleanup failed has
\* written the broken name
C21_Witness ==
    /\ Returned("Rollback")
    /\ calls = <<  <<"SupportsRollback", "yes">>, <<"ArtifactRollback", "ok">>,
                   <<"Cleanup", "error">>  >>
    /\ BrokenWritten
    /\ BrokenRecorded

====
